---- MODULE Spec2Model ----
(***************************************************************************)
(* Appointment scheduling of the clinic backend: the weekly slot generator, *)
(* the daily cleaner and their scheduler (task_scheduler.py, main.py), the  *)
(* booking handlers of routers/student.py and the availability, slot,       *)
(* cancel / complete / visit handlers of routers/doctor.py.                 *)
(*                                                                         *)
(* Tables are functions from the autoincrement primary key to the row.     *)
(* Every request handler runs in its own database session: each SELECT of  *)
(* a handler and its COMMIT are separate steps, and steps of different     *)
(* handlers interleave (read committed).  Dates are day numbers, day 0 a   *)
(* Monday; times of day are minutes after midnight.                        *)
(***************************************************************************)
EXTENDS Integers, FiniteSets, Sequences, TLC

VARIABLES today, avails, slots, visits, complaints, diagnoses, seq, reqs, gen, genDone, calls, sched

vars == <<today, avails, slots, visits, complaints, diagnoses, seq, reqs, gen, genDone, calls, sched>>

\* ---------------------------------------------------------------- bounds
\* time-of-day values are the multiples of Granule up to MaxTicks * Granule
Granule == 10
MaxTicks == 5
\* the clock runs from StartDay to MaxDay
StartDay == 6
MaxDay == 7
\* availability windows drawn by InitGen
MaxAvail == 2
\* concurrent generator runs (the scheduled job and the manual trigger)
NumGenRuns == 2
\* generator runs started in one behaviour
MaxGenCalls == 2
\* concurrent request handlers, and handler calls in one behaviour
NumProcs == 2
MaxCalls == 3

\* ------------------------------------------------------- program constants
SlotMinutes == 20

Doctors == {"d1", "d2"}
Students == {"s1", "s2"}
\* student_id IS NULL, schedule_id None
NoStudent == "none"
NoId == 0

DayNames == <<"Monday", "Tuesday", "Wednesday", "Thursday", "Friday", "Saturday", "Sunday">>
AppointmentStatus == {"available", "booked", "completed", "cancelled", "pending"}
VisitStatus == {"pending", "completed", "cancelled"}
AvailabilityStatus == {"active", "inactive"}

Times == {t * Granule : t \in 0..MaxTicks}

\* ------------------------------------------------------------- the tables
Ids(table) == DOMAIN table

Insert(table, id, row) == (id :> row) @@ table

Remove(table, ids) == [id \in (DOMAIN table) \ ids |-> table[id]]

EmptyTable == <<>>

\* ------------------------------------------------------ the slot generator
\* date.weekday(): Monday is 0
weekday(d) == d % 7

\* calendar.day_name[k]
day_name(k) == DayNames[k + 1]

\* the week counted from the coming Monday, today included when it is one
get_dates_from_coming_monday(day, t) ==
    LET next_monday == t + ((7 - weekday(t)) % 7)
    IN  {next_monday + i : i \in {j \in 0..6 : day_name(weekday(next_monday + j)) = day}}

get_next_week_dates_for_day(day, t) ==
    LET next_monday == t + (7 - weekday(t))
    IN  {next_monday + i : i \in {j \in 0..6 : day_name(weekday(next_monday + j)) = day}}

\* the loop without its test of slot_end against end: the remainder becomes a slot
RECURSIVE SlotLoopNoBreak(_, _)
SlotLoopNoBreak(slot_start, end) ==
    IF slot_start < end
    THEN {<<slot_start, slot_start + SlotMinutes>>}
            \cup SlotLoopNoBreak(slot_start + SlotMinutes, end)
    ELSE {}

\* the while loop of generate_schedules over one occurrence of a window
RECURSIVE SlotLoop(_, _)
SlotLoop(slot_start, end) ==
    IF slot_start < end
    THEN LET slot_end == slot_start + SlotMinutes
         IN  IF slot_end > end
             THEN {}
             ELSE {<<slot_start, slot_end>>} \cup SlotLoop(slot_end, end)
    ELSE {}

\* the rows the loops of generate_schedules visit, for the windows it selected
Candidates(wins, t) ==
    UNION {UNION {{[doctor_id |-> wins[a].doctor_id, availability_id |-> a, date |-> d,
                    start_time |-> r[1], end_time |-> r[2]] :
                       r \in SlotLoop(wins[a].start_time, wins[a].end_time)} :
                  d \in get_next_week_dates_for_day(wins[a].day_of_week, t)} :
           a \in Ids(wins)}

\* the SELECT without its status filter
AllWindows(av) == av

\* select(Availability).where(status == active)
ActiveWindows(av) == [a \in {x \in Ids(av) : av[x].status = "active"} |-> av[a]]

\* the duplicate check: the rows of the exact (doctor, date, start, end) tuple
Existing(tbl, c) ==
    {s \in Ids(tbl) : /\ tbl[s].doctor_id = c.doctor_id
                      /\ tbl[s].date = c.date
                      /\ tbl[s].start_time = c.start_time
                      /\ tbl[s].end_time = c.end_time}

\* scalar_one_or_none raises MultipleResultsFound on two matching rows
GenRaises(wins, tbl, t) == \E c \in Candidates(wins, t) : Cardinality(Existing(tbl, c)) > 1

\* the run without its duplicate check
ToAddUnchecked(wins, tbl, t) == Candidates(wins, t)

\* the rows db.add is called for (autoflush is off: pending rows are not seen)
ToAdd(wins, tbl, t) == {c \in Candidates(wins, t) : Existing(tbl, c) = {}}

\* the row without its availability_id
NewSlotUnlinked(c) ==
    [doctor_id |-> c.doctor_id, student_id |-> NoStudent,
     availability_id |-> NoId, date |-> c.date,
     start_time |-> c.start_time, end_time |-> c.end_time, status |-> "available"]

NewSlot(c) ==
    [doctor_id |-> c.doctor_id, student_id |-> NoStudent,
     availability_id |-> c.availability_id, date |-> c.date,
     start_time |-> c.start_time, end_time |-> c.end_time, status |-> "available"]

\* rows are inserted in the order of the loops: by window, then by start time
Before(c1, c2) ==
    \/ c1.availability_id < c2.availability_id
    \/ /\ c1.availability_id = c2.availability_id
       /\ c1.start_time < c2.start_time

RECURSIVE InsertAll(_, _, _)
InsertAll(tbl, next, rows) ==
    IF rows = {}
    THEN tbl
    ELSE LET c == CHOOSE x \in rows : \A y \in rows \ {x} : Before(x, y)
         IN  InsertAll(Insert(tbl, next, NewSlot(c)), next + 1, rows \ {c})

GenIdle == [pc |-> "idle", day |-> 0, wins |-> EmptyTable, toAdd |-> {}, fresh |-> {}, rerun |-> FALSE]

GenRuns == 1..NumGenRuns

\* the windows of wins whose doctor has no slot yet on the window's date
FreshWindows(wins, tbl, t) ==
    {a \in Ids(wins) :
        \A d \in get_next_week_dates_for_day(wins[a].day_of_week, t) :
            ~\E s \in Ids(tbl) : /\ tbl[s].doctor_id = wins[a].doctor_id
                                 /\ tbl[s].date = d}

\* generate_schedules up to its commit: the SELECT of the active windows and the
\* duplicate checks.  An exception ends the run with nothing committed.
\* fresh and rerun record what the run saw, for the properties.
GenLoaded ==
    LET wins == ActiveWindows(avails)
    IN  IF GenRaises(wins, slots, today)
        THEN GenIdle
        ELSE [pc |-> "commit", day |-> today, wins |-> wins,
              toAdd |-> ToAdd(wins, slots, today),
              fresh |-> FreshWindows(wins, slots, today),
              rerun |-> /\ genDone.day = today
                        /\ genDone.table = slots]

GenRead(r) ==
    /\ gen[r].pc = "idle"
    /\ calls < MaxGenCalls
    /\ calls' = calls + 1
    /\ gen' = [gen EXCEPT ![r] = GenLoaded]
    /\ UNCHANGED <<today, avails, slots, visits, complaints, diagnoses, seq, reqs, genDone, sched>>

\* await db.commit() of generate_schedules
GenCommit(r) ==
    /\ gen[r].pc = "commit"
    /\ slots' = InsertAll(slots, seq.slot, gen[r].toAdd)
    /\ seq' = [seq EXCEPT !.slot = @ + Cardinality(gen[r].toAdd)]
    /\ genDone' = [day |-> gen[r].day, table |-> slots', again |-> gen[r].rerun]
    /\ gen' = [gen EXCEPT ![r] = GenIdle]
    /\ UNCHANGED <<today, avails, visits, complaints, diagnoses, reqs, calls, sched>>

\* a day passes
Tick ==
    /\ today < MaxDay
    /\ today' = today + 1
    /\ UNCHANGED <<avails, slots, visits, complaints, diagnoses, seq, reqs, gen, genDone, calls, sched>>

\* ------------------------------------------------ the scheduler and its jobs
\* the scheduler after start_scheduler: running, neither job fired yet.  genDay
\* and cleanDay are the days of the last firing of each job, job what the last
\* scheduled run of each job did ("started", "ok", "failed", "cancelled"), missed
\* the rows a failed generator run had to add.  starts counts the calls of
\* start_scheduler, jobs is the job list, genRuns and cleanRuns count the runs
\* the scheduler started of each job; at tells whether the configured time of
\* day (08:43) is still to come today ("before"), is now ("due") or has passed
\* ("after"), since the time of day at which the scheduler was started.
NoDay == -1

GenJob == "generate_schedules"
CleanJob == "cleanup_past_schedules"

\* start_scheduler with the second add_job left out
JobsAddedGeneratorOnly(jobs) == jobs \o <<GenJob>>

\* the two add_job calls of start_scheduler
JobsAdded(jobs) == jobs \o <<GenJob, CleanJob>>

\* the module-level AsyncIOScheduler() before start_scheduler is called
SchedNew ==
    [running |-> FALSE, genDay |-> NoDay, cleanDay |-> NoDay,
     genRes |-> "none", cleanRes |-> "none", missed |-> {},
     starts |-> 0, jobs |-> <<>>, genRuns |-> 0, cleanRuns |-> 0,
     at |-> "before", since |-> "none"]

SchedStarted ==
    [SchedNew EXCEPT !.running = TRUE, !.starts = 1, !.jobs = JobsAdded(<<>>),
                     !.since = "before"]

\* a trigger that fires whatever the scheduler's state
DueAfterShutdown(last) == last # today

\* the scheduler fires a job while it is running, once on a day of the job's
\* trigger (last is the day of the job's last firing)
Due(last) == sched.running /\ last # today

\* the rows the DELETE of cleanup_past_schedules selects
PastAvailable(tbl, d) ==
    {s \in Ids(tbl) : tbl[s].date < d /\ tbl[s].status = "available"}

\* a schedule_id column that is no foreign key
ReferencedUnchecked(ids) == FALSE

\* clinic_visits.schedule_id is a foreign key with no ON DELETE rule: a DELETE
\* that selects a referenced row raises and deletes nothing
Referenced(ids) == \E v \in Ids(visits) : visits[v].schedule_id \in ids

\* the daily job: the DELETE and its commit.  The job's exception ends the run;
\* the scheduler logs it and goes on.
cleanup_past_schedules ==
    /\ Due(sched.cleanDay)
    /\ LET targets == PastAvailable(slots, today)
       IN  IF Referenced(targets)
           THEN /\ slots' = slots
                /\ sched' = [sched EXCEPT !.cleanDay = today, !.cleanRes = "failed",
                                          !.cleanRuns = @ + 1]
           ELSE /\ slots' = Remove(slots, targets)
                /\ sched' = [sched EXCEPT !.cleanDay = today, !.cleanRes = "ok",
                                          !.cleanRuns = @ + 1]
    /\ UNCHANGED <<today, avails, visits, complaints, diagnoses, seq, reqs, gen, genDone, calls>>

\* a statement of the daily job fails in the database: nothing is committed
cleanup_fails ==
    /\ Due(sched.cleanDay)
    /\ sched' = [sched EXCEPT !.cleanDay = today, !.cleanRes = "failed", !.cleanRuns = @ + 1]
    /\ UNCHANGED <<today, avails, slots, visits, complaints, diagnoses, seq, reqs, gen, genDone, calls>>

\* the run of generate_schedules the scheduler starts
JobRun == 1

\* the weekly job fires (Mondays) and does its reads
generate_job ==
    /\ Due(sched.genDay)
    /\ weekday(today) = 0
    /\ gen[JobRun].pc = "idle"
    /\ gen' = [gen EXCEPT ![JobRun] = GenLoaded]
    /\ sched' = [sched EXCEPT !.genDay = today, !.genRuns = @ + 1,
                              !.genRes = IF GenLoaded.pc = "commit" THEN "started" ELSE "failed"]
    /\ UNCHANGED <<today, avails, slots, visits, complaints, diagnoses, seq, reqs, genDone, calls>>

\* a statement of the weekly job, its commit included, fails in the database:
\* get_db_context closes the session and nothing is committed
generate_job_fails ==
    /\ gen[JobRun].pc = "commit"
    /\ sched.genRes = "started"
    /\ gen' = [gen EXCEPT ![JobRun] = GenIdle]
    /\ sched' = [sched EXCEPT !.genRes = "failed", !.missed = gen[JobRun].toAdd]
    /\ UNCHANGED <<today, avails, slots, visits, complaints, diagnoses, seq, reqs, genDone, calls>>

\* the shutdown handler: scheduler.shutdown(wait=False) if it is running
shutdown_event ==
    /\ sched.running
    /\ sched' = [sched EXCEPT !.running = FALSE]
    /\ UNCHANGED <<today, avails, slots, visits, complaints, diagnoses, seq, reqs, gen, genDone, calls>>

\* the startup handler: create_tables, then start_scheduler, which adds the two
\* jobs and starts the scheduler.  It runs once, when the process starts; the
\* next run time of a cron trigger is its first time after the start.
startup_event ==
    /\ sched.starts = 0
    /\ sched' = [sched EXCEPT !.running = TRUE, !.starts = @ + 1,
                              !.jobs = JobsAdded(@), !.since = sched.at]
    /\ UNCHANGED <<today, avails, slots, visits, complaints, diagnoses, seq, reqs, gen, genDone, calls>>

\* the job list holds a job of this function
HasJob(job) == \E i \in DOMAIN sched.jobs : sched.jobs[i] = job

\* the clock reaches the configured time of day of the cron triggers
trigger_time ==
    /\ sched.at = "before"
    /\ sched' = [sched EXCEPT !.at = "due"]
    /\ UNCHANGED <<today, avails, slots, visits, complaints, diagnoses, seq, reqs, gen, genDone, calls>>

\* the configured time passes: a running scheduler has by then started the run
\* of every job whose trigger matches today
trigger_done ==
    /\ sched.at = "due"
    /\ ~(HasJob(CleanJob) /\ Due(sched.cleanDay))
    /\ ~(HasJob(GenJob) /\ Due(sched.genDay) /\ weekday(today) = 0 /\ gen[JobRun].pc = "idle")
    /\ sched' = [sched EXCEPT !.at = "after"]
    /\ UNCHANGED <<today, avails, slots, visits, complaints, diagnoses, seq, reqs, gen, genDone, calls>>

\* the day ends (a generator run takes less than a day)
midnight ==
    /\ sched.at = "after"
    /\ today < MaxDay
    /\ \A r \in GenRuns : gen[r].pc = "idle"
    /\ today' = today + 1
    /\ sched' = [sched EXCEPT !.at = "before",
                              !.since = IF sched.running THEN "before" ELSE @]
    /\ UNCHANGED <<avails, slots, visits, complaints, diagnoses, seq, reqs, gen, genDone, calls>>

\* shutdown does not wait: a run in flight goes on to its commit (GenCommit) or
\* is cancelled at an await before it
job_cancelled ==
    /\ ~sched.running
    /\ gen[JobRun].pc = "commit"
    /\ gen' = [gen EXCEPT ![JobRun] = GenIdle]
    /\ sched' = [sched EXCEPT !.genRes = "cancelled"]
    /\ UNCHANGED <<today, avails, slots, visits, complaints, diagnoses, seq, reqs, genDone, calls>>

\* ------------------------------------------------------ request handlers
\* a handler's locals: its inputs (who is the authenticated caller; aid, day,
\* st, en, arg for the availability and slot handlers: an update names in arg
\* the fields it sets and carries a day name or status in day), the row it
\* loaded (doc, date), the response status (res).  free records that a Claim was issued on
\* an available, unclaimed slot; cid is the complaint a diagnosis names.
ReqIdle ==
    [op |-> "none", pc |-> "idle", who |-> "none", stu |-> "none", sid |-> NoId,
     vid |-> NoId, doc |-> "none", date |-> 0, arg |-> "none", res |-> 0, free |-> FALSE,
     aid |-> NoId, day |-> "none", st |-> 0, en |-> 0, cid |-> NoId]

Procs == 1..NumProcs

CanCall(p) == reqs[p].pc \in {"idle", "done"} /\ calls < MaxCalls

Started(op, who, sid) == [ReqIdle EXCEPT !.op = op, !.who = who, !.sid = sid]

\* the handler has returned: what is kept is the call and its response
Done(rq, code) ==
    [ReqIdle EXCEPT !.op = rq.op, !.pc = "done", !.who = rq.who, !.sid = rq.sid,
                    !.vid = rq.vid, !.res = code, !.free = rq.free,
                    !.aid = rq.aid, !.day = rq.day, !.st = rq.st, !.en = rq.en]

Unclaimed(sid) ==
    /\ sid \in Ids(slots)
    /\ slots[sid].status = "available"
    /\ slots[sid].student_id = NoStudent

NewVisit(student, doctor, sid, date, status, via) ==
    [student_id |-> student, doctor_id |-> doctor, schedule_id |-> sid,
     visit_date |-> date, status |-> status, via |-> via]

\* POST /students/complaints, first SELECT: the slot, if its status is available.
\* The handler's except Exception turns its own HTTPException into a 500.
create_visit_and_complaint(p, s, sid) ==
    /\ CanCall(p)
    /\ calls' = calls + 1
    /\ LET rq == [Started("complaint", s, sid) EXCEPT !.free = Unclaimed(sid)]
       IN  IF sid \in Ids(slots) /\ slots[sid].status = "available"
           THEN reqs' = [reqs EXCEPT ![p] =
                    [rq EXCEPT !.pc = "visits", !.doc = slots[sid].doctor_id,
                               !.date = slots[sid].date]]
           ELSE reqs' = [reqs EXCEPT ![p] = Done(rq, 500)]
    /\ UNCHANGED <<today, avails, slots, visits, complaints, diagnoses, seq, gen, genDone, sched>>

\* second SELECT: a visit of this student for this slot
complaint_check_visit(p) ==
    /\ reqs[p].op = "complaint"
    /\ reqs[p].pc = "visits"
    /\ IF \E v \in Ids(visits) : /\ visits[v].schedule_id = reqs[p].sid
                                 /\ visits[v].student_id = reqs[p].who
       THEN reqs' = [reqs EXCEPT ![p] = Done(@, 500)]
       ELSE reqs' = [reqs EXCEPT ![p].pc = "commit"]
    /\ UNCHANGED <<today, avails, slots, visits, complaints, diagnoses, seq, gen, genDone, calls, sched>>

\* POST /students/schedules, its SELECT: the slot, if it has no student and its
\* status is booked
book_schedule(p, s, sid) ==
    /\ CanCall(p)
    /\ calls' = calls + 1
    /\ LET rq == [Started("book", s, sid) EXCEPT !.free = Unclaimed(sid)]
       IN  IF /\ sid \in Ids(slots)
              /\ slots[sid].student_id = NoStudent
              /\ slots[sid].status = "booked"
           THEN reqs' = [reqs EXCEPT ![p] =
                    [rq EXCEPT !.pc = "commit", !.doc = slots[sid].doctor_id,
                               !.date = slots[sid].date]]
           ELSE reqs' = [reqs EXCEPT ![p] = Done(rq, 400)]
    /\ UNCHANGED <<today, avails, slots, visits, complaints, diagnoses, seq, gen, genDone, sched>>

\* GET /students/schedules/available: the ids of the rows it returns
get_student_available_schedules ==
    {s \in Ids(slots) : slots[s].status = "available" /\ slots[s].date >= today}

\* GET /general/available-schedules: the ids of the rows it returns
get_available_schedules ==
    {s \in Ids(slots) : slots[s].student_id = NoStudent /\ slots[s].status = "booked"}

\* the commit that leaves the student_id of the row as it was loaded
ClaimedSlotNoPatient(row, rq) == [row EXCEPT !.status = "booked"]

\* the commit that leaves the status of the row as it was loaded
ClaimedSlotStatusKept(row, rq) == [row EXCEPT !.student_id = rq.who]

\* what the commit of a Claim writes to the loaded slot row
ClaimedSlot(row, rq) ==
    IF rq.op = "complaint"
    THEN [row EXCEPT !.student_id = rq.who, !.status = "booked"]
    ELSE [row EXCEPT !.student_id = rq.who]

\* the visit without its schedule_id
ClaimVisitUnlinked(rq) == NewVisit(rq.who, rq.doc, NoId, rq.date, "pending", "claim")

\* the ClinicVisit either Claim handler adds
ClaimVisit(rq) == NewVisit(rq.who, rq.doc, rq.sid, rq.date, "pending", "claim")

\* the commit of either Claim handler: the visit, the complaint (complaints
\* route), the UPDATE of the slot row by primary key
claim_commit(p) ==
    /\ reqs[p].op \in {"complaint", "book"}
    /\ reqs[p].pc = "commit"
    /\ IF reqs[p].sid \in Ids(slots)
       THEN /\ visits' = Insert(visits, seq.visit, ClaimVisit(reqs[p]))
            /\ complaints' = IF reqs[p].op = "complaint"
                             THEN complaints \cup {seq.visit}
                             ELSE complaints
            /\ slots' = [slots EXCEPT ![reqs[p].sid] = ClaimedSlot(@, reqs[p])]
            /\ seq' = [seq EXCEPT !.visit = @ + 1]
            /\ reqs' = [reqs EXCEPT ![p] = Done([@ EXCEPT !.vid = seq.visit], 201)]
       ELSE /\ reqs' = [reqs EXCEPT ![p] = Done(@, 500)]
            /\ UNCHANGED <<slots, visits, complaints, seq>>
    /\ UNCHANGED <<today, avails, diagnoses, gen, genDone, calls, sched>>

\* POST /students/visits, first SELECT: the slot; then the date comparison
student_create_visit(p, s, sid, date) ==
    /\ CanCall(p)
    /\ calls' = calls + 1
    /\ LET rq == [Started("svisit", s, sid) EXCEPT !.date = date]
       IN  IF sid \in Ids(slots) /\ date = slots[sid].date
           THEN reqs' = [reqs EXCEPT ![p] =
                    [rq EXCEPT !.pc = "visits", !.doc = slots[sid].doctor_id]]
           ELSE reqs' = [reqs EXCEPT ![p] = Done(rq, 400)]
    /\ UNCHANGED <<today, avails, slots, visits, complaints, diagnoses, seq, gen, genDone, sched>>

\* second SELECT: the visits of this slot on this date
student_check_visits(p) ==
    /\ reqs[p].op = "svisit"
    /\ reqs[p].pc = "visits"
    /\ IF \E v \in Ids(visits) : /\ visits[v].schedule_id = reqs[p].sid
                                 /\ visits[v].visit_date = reqs[p].date
       THEN reqs' = [reqs EXCEPT ![p] = Done(@, 400)]
       ELSE reqs' = [reqs EXCEPT ![p].pc = "commit"]
    /\ UNCHANGED <<today, avails, slots, visits, complaints, diagnoses, seq, gen, genDone, calls, sched>>

\* POST /doctor/visits, its SELECTs: the student, and the slot if one is named
doctor_create_visit(p, d, stu, sid, date, status) ==
    /\ CanCall(p)
    /\ calls' = calls + 1
    /\ LET rq == [Started("dvisit", d, sid) EXCEPT !.stu = stu, !.date = date, !.arg = status]
       IN  IF stu \notin Students
           THEN reqs' = [reqs EXCEPT ![p] = Done(rq, 404)]
           ELSE IF sid # NoId /\ ~(sid \in Ids(slots) /\ slots[sid].doctor_id = d)
           THEN reqs' = [reqs EXCEPT ![p] = Done(rq, 404)]
           ELSE reqs' = [reqs EXCEPT ![p] = [rq EXCEPT !.pc = "commit", !.doc = d]]
    /\ UNCHANGED <<today, avails, slots, visits, complaints, diagnoses, seq, gen, genDone, sched>>

\* the commit of either create_visit: the INSERT of the visit (its schedule_id
\* is a foreign key: the slot row must still be there)
visit_commit(p) ==
    /\ reqs[p].op \in {"svisit", "dvisit"}
    /\ reqs[p].pc = "commit"
    /\ IF reqs[p].sid = NoId \/ reqs[p].sid \in Ids(slots)
       THEN /\ visits' = Insert(visits, seq.visit,
                            IF reqs[p].op = "svisit"
                            THEN NewVisit(reqs[p].who, reqs[p].doc, reqs[p].sid,
                                          reqs[p].date, "pending", "student")
                            ELSE NewVisit(reqs[p].stu, reqs[p].who, reqs[p].sid,
                                          reqs[p].date, reqs[p].arg, "doctor"))
            /\ seq' = [seq EXCEPT !.visit = @ + 1]
            /\ reqs' = [reqs EXCEPT ![p] =
                    Done([@ EXCEPT !.vid = seq.visit],
                         IF reqs[p].op = "svisit" THEN 201 ELSE 200)]
       ELSE /\ reqs' = [reqs EXCEPT ![p] = Done(@, 500)]
            /\ UNCHANGED <<visits, seq>>
    /\ UNCHANGED <<today, avails, slots, complaints, diagnoses, gen, genDone, calls, sched>>

\* what cancel_schedule answers to the row it loaded: 0 to go on to the UPDATE
CancelCheck(d, sid) ==
    IF sid \notin Ids(slots) THEN 404
    ELSE IF slots[sid].doctor_id # d THEN 403
    ELSE IF slots[sid].status = "cancelled" THEN 400
    ELSE 0

\* PUT /doctor/schedules/{id}/cancel, its SELECT and checks
cancel_schedule(p, d, sid) ==
    /\ CanCall(p)
    /\ calls' = calls + 1
    /\ LET rq == Started("cancel", d, sid)
       IN  IF CancelCheck(d, sid) # 0
           THEN reqs' = [reqs EXCEPT ![p] = Done(rq, CancelCheck(d, sid))]
           ELSE reqs' = [reqs EXCEPT ![p] = [rq EXCEPT !.pc = "commit"]]
    /\ UNCHANGED <<today, avails, slots, visits, complaints, diagnoses, seq, gen, genDone, sched>>

\* schedule.status = cancelled; await db.commit()
cancel_commit(p) ==
    /\ reqs[p].op = "cancel"
    /\ reqs[p].pc = "commit"
    /\ IF reqs[p].sid \in Ids(slots)
       THEN /\ slots' = [slots EXCEPT ![reqs[p].sid].status = "cancelled"]
            /\ reqs' = [reqs EXCEPT ![p] = Done(@, 200)]
       ELSE /\ reqs' = [reqs EXCEPT ![p] = Done(@, 500)]
            /\ UNCHANGED slots
    /\ UNCHANGED <<today, avails, visits, complaints, diagnoses, seq, gen, genDone, calls, sched>>

\* the filter without its doctor_id condition
CompletableByAnyDoctor(d, vid) ==
    /\ vid \in Ids(visits)
    /\ visits[vid].status = "pending"

\* the filter of complete_visit's SELECT
Completable(d, vid) ==
    /\ vid \in Ids(visits)
    /\ visits[vid].doctor_id = d
    /\ visits[vid].status = "pending"

\* POST /doctor/visits/{id}/complete, its SELECT of the visit
complete_visit(p, d, vid) ==
    /\ CanCall(p)
    /\ calls' = calls + 1
    /\ LET rq == [Started("complete", d, NoId) EXCEPT !.vid = vid]
       IN  IF Completable(d, vid)
           THEN reqs' = [reqs EXCEPT ![p] =
                    [rq EXCEPT !.pc = "commit", !.sid = visits[vid].schedule_id]]
           ELSE reqs' = [reqs EXCEPT ![p] = Done(rq, 404)]
    /\ UNCHANGED <<today, avails, slots, visits, complaints, diagnoses, seq, gen, genDone, sched>>

\* visit.status = completed; await db.commit().  A visit with no schedule_id is
\* returned here.
complete_commit_visit(p) ==
    /\ reqs[p].op = "complete"
    /\ reqs[p].pc = "commit"
    /\ visits' = [visits EXCEPT ![reqs[p].vid].status = "completed"]
    /\ IF reqs[p].sid = NoId
       THEN reqs' = [reqs EXCEPT ![p] = Done(@, 200)]
       ELSE reqs' = [reqs EXCEPT ![p].pc = "slot"]
    /\ UNCHANGED <<today, avails, slots, complaints, diagnoses, seq, gen, genDone, calls, sched>>

\* the SELECT of the visit's slot, after the first commit
complete_read_slot(p) ==
    /\ reqs[p].op = "complete"
    /\ reqs[p].pc = "slot"
    /\ IF reqs[p].sid \in Ids(slots)
       THEN reqs' = [reqs EXCEPT ![p].pc = "commit2"]
       ELSE reqs' = [reqs EXCEPT ![p] = Done(@, 200)]
    /\ UNCHANGED <<today, avails, slots, visits, complaints, diagnoses, seq, gen, genDone, calls, sched>>

\* schedule.status = completed; await db.commit()
complete_commit_slot(p) ==
    /\ reqs[p].op = "complete"
    /\ reqs[p].pc = "commit2"
    /\ IF reqs[p].sid \in Ids(slots)
       THEN /\ slots' = [slots EXCEPT ![reqs[p].sid].status = "completed"]
            /\ reqs' = [reqs EXCEPT ![p] = Done(@, 200)]
       ELSE /\ reqs' = [reqs EXCEPT ![p] = Done(@, 500)]
            /\ UNCHANGED slots
    /\ UNCHANGED <<today, avails, visits, complaints, diagnoses, seq, gen, genDone, calls, sched>>

\* POST /doctor/diagnoses, its SELECT of the visit by id and doctor and the
\* comparison of the student
create_diagnosis(p, d, vid, stu, cid) ==
    /\ CanCall(p)
    /\ calls' = calls + 1
    /\ LET rq == [Started("diagnose", d, NoId) EXCEPT !.vid = vid, !.stu = stu, !.cid = cid]
       IN  IF ~(vid \in Ids(visits) /\ visits[vid].doctor_id = d)
           THEN reqs' = [reqs EXCEPT ![p] = Done(rq, 404)]
           ELSE IF visits[vid].student_id # stu
           THEN reqs' = [reqs EXCEPT ![p] = Done(rq, 400)]
           ELSE reqs' = [reqs EXCEPT ![p] =
                    [rq EXCEPT !.pc = "commit", !.sid = visits[vid].schedule_id]]
    /\ UNCHANGED <<today, avails, slots, visits, complaints, diagnoses, seq, gen, genDone, sched>>

\* db.add(db_diagnosis); await db.commit() (complaint_id is a foreign key).  A
\* visit with no schedule_id is returned here.
diagnosis_commit(p) ==
    /\ reqs[p].op = "diagnose"
    /\ reqs[p].pc = "commit"
    /\ IF reqs[p].cid \in complaints
       THEN /\ diagnoses' = diagnoses \cup {reqs[p].vid}
            /\ IF reqs[p].sid = NoId
               THEN reqs' = [reqs EXCEPT ![p] = Done(@, 200)]
               ELSE reqs' = [reqs EXCEPT ![p].pc = "slot"]
       ELSE /\ reqs' = [reqs EXCEPT ![p] = Done(@, 500)]
            /\ UNCHANGED diagnoses
    /\ UNCHANGED <<today, avails, slots, visits, complaints, seq, gen, genDone, calls, sched>>

\* the SELECT of the visit's slot, after the commit of the diagnosis
diagnosis_read_slot(p) ==
    /\ reqs[p].op = "diagnose"
    /\ reqs[p].pc = "slot"
    /\ IF reqs[p].sid \in Ids(slots)
       THEN reqs' = [reqs EXCEPT ![p].pc = "commit2"]
       ELSE reqs' = [reqs EXCEPT ![p] = Done(@, 200)]
    /\ UNCHANGED <<today, avails, slots, visits, complaints, diagnoses, seq, gen, genDone, calls, sched>>

\* schedule.status = completed; await db.commit()
diagnosis_commit_slot(p) ==
    /\ reqs[p].op = "diagnose"
    /\ reqs[p].pc = "commit2"
    /\ IF reqs[p].sid \in Ids(slots)
       THEN /\ slots' = [slots EXCEPT ![reqs[p].sid].status = "completed"]
            /\ reqs' = [reqs EXCEPT ![p] = Done(@, 200)]
       ELSE /\ reqs' = [reqs EXCEPT ![p] = Done(@, 500)]
            /\ UNCHANGED slots
    /\ UNCHANGED <<today, avails, visits, complaints, diagnoses, seq, gen, genDone, calls, sched>>

\* the UPDATE of the visit that create_dispensation executes in its transaction
DispensedVisits(tbl, vid) ==
    [v \in Ids(tbl) |-> IF v = vid THEN [tbl[v] EXCEPT !.status = "completed"] ELSE tbl[v]]

\* the table after a handler that commits its transaction
SessionCommitted(committed, tx) == tx

\* the table after a handler that returns without a commit: get_db closes the
\* session, which rolls the transaction back
SessionClosed(committed, tx) == committed

\* POST /pharmacist/dispensations for a prescription of a diagnosis of visit
\* vid: the SELECTs of the prescription, the drug and the diagnosis, the INSERTs
\* and the UPDATEs; the handler returns without a commit
create_dispensation(p, ph, vid) ==
    /\ CanCall(p)
    /\ calls' = calls + 1
    /\ LET rq == [Started("dispense", ph, NoId) EXCEPT !.vid = vid]
       IN  IF vid \notin diagnoses
           THEN /\ reqs' = [reqs EXCEPT ![p] = Done(rq, 404)]
                /\ visits' = visits
           ELSE /\ reqs' = [reqs EXCEPT ![p] = Done(rq, 200)]
                /\ visits' = SessionClosed(visits, DispensedVisits(visits, vid))
    /\ UNCHANGED <<today, avails, slots, complaints, diagnoses, seq, gen, genDone, sched>>

\* ------------------------------------------- availability and slot handlers
\* the overlap filter of create_availability and create_schedule
Overlaps(s1, e1, s2, e2) == s1 < e2 /\ e1 > s2

\* the rows the overlap SELECT of create_availability returns (any status)
OverlappingWindows(d, day, st, en) ==
    {a \in Ids(avails) : /\ avails[a].doctor_id = d
                          /\ avails[a].day_of_week = day
                          /\ Overlaps(avails[a].start_time, avails[a].end_time, st, en)}

\* what scalar_one_or_none makes of the rows of an overlap SELECT: 0 to go on,
\* 409 for one row; two rows raise MultipleResultsFound, a 500
OverlapAnswer(rows) ==
    IF rows = {} THEN 0 ELSE IF Cardinality(rows) = 1 THEN 409 ELSE 500

\* POST /doctor/availabilities: the time range check and the overlap SELECT
create_availability(p, d, day, st, en, status) ==
    /\ CanCall(p)
    /\ calls' = calls + 1
    /\ LET rq == [Started("cavail", d, NoId) EXCEPT !.day = day, !.st = st, !.en = en,
                                                   !.arg = status]
           code == IF st >= en THEN 400
                   ELSE OverlapAnswer(OverlappingWindows(d, day, st, en))
       IN  IF code # 0
           THEN reqs' = [reqs EXCEPT ![p] = Done(rq, code)]
           ELSE reqs' = [reqs EXCEPT ![p] = [rq EXCEPT !.pc = "commit"]]
    /\ UNCHANGED <<today, avails, slots, visits, complaints, diagnoses, seq, gen, genDone, sched>>

\* db.add(db_availability); await db.commit()
availability_commit(p) ==
    /\ reqs[p].op = "cavail"
    /\ reqs[p].pc = "commit"
    /\ avails' = Insert(avails, seq.avail,
                        [doctor_id |-> reqs[p].who, day_of_week |-> reqs[p].day,
                         start_time |-> reqs[p].st, end_time |-> reqs[p].en,
                         status |-> reqs[p].arg])
    /\ seq' = [seq EXCEPT !.avail = @ + 1]
    /\ reqs' = [reqs EXCEPT ![p] = Done(@, 200)]
    /\ UNCHANGED <<today, slots, visits, complaints, diagnoses, gen, genDone, calls, sched>>

\* setattr for every field the request sets (exclude_unset)
Updated(row, rq) ==
    [f \in DOMAIN row |->
        IF f = "date" /\ rq.arg = "date" THEN rq.date
        ELSE IF f = "start_time" /\ rq.arg \in {"start_time", "times"} THEN rq.st
        ELSE IF f = "end_time" /\ rq.arg \in {"end_time", "times"} THEN rq.en
        ELSE IF f \in {"day_of_week", "status"} /\ rq.arg = f THEN rq.day
        ELSE row[f]]

\* PUT /doctor/availability/{id}: the SELECT by id and doctor
update_availability(p, d, aid, field, st, en, value) ==
    /\ CanCall(p)
    /\ calls' = calls + 1
    /\ LET rq == [Started("uavail", d, NoId) EXCEPT !.aid = aid, !.arg = field,
                                                   !.st = st, !.en = en, !.day = value]
       IN  IF aid \in Ids(avails) /\ avails[aid].doctor_id = d
           THEN reqs' = [reqs EXCEPT ![p] = [rq EXCEPT !.pc = "commit"]]
           ELSE reqs' = [reqs EXCEPT ![p] = Done(rq, 404)]
    /\ UNCHANGED <<today, avails, slots, visits, complaints, diagnoses, seq, gen, genDone, sched>>

\* the setattr loop and the commit: an UPDATE by primary key of the fields set
update_availability_commit(p) ==
    /\ reqs[p].op = "uavail"
    /\ reqs[p].pc = "commit"
    /\ IF reqs[p].aid \in Ids(avails)
       THEN /\ avails' = [avails EXCEPT ![reqs[p].aid] = Updated(@, reqs[p])]
            /\ reqs' = [reqs EXCEPT ![p] = Done(@, 200)]
       ELSE /\ reqs' = [reqs EXCEPT ![p] = Done(@, 500)]
            /\ UNCHANGED avails
    /\ UNCHANGED <<today, slots, visits, complaints, diagnoses, seq, gen, genDone, calls, sched>>

\* DELETE /doctor/availability/{id}: the SELECT by id and doctor
delete_availability(p, d, aid) ==
    /\ CanCall(p)
    /\ calls' = calls + 1
    /\ LET rq == [Started("davail", d, NoId) EXCEPT !.aid = aid]
       IN  IF aid \in Ids(avails) /\ avails[aid].doctor_id = d
           THEN reqs' = [reqs EXCEPT ![p] = [rq EXCEPT !.pc = "commit"]]
           ELSE reqs' = [reqs EXCEPT ![p] = Done(rq, 404)]
    /\ UNCHANGED <<today, avails, slots, visits, complaints, diagnoses, seq, gen, genDone, sched>>

\* db.delete(availability); await db.commit(): the row goes, and the slots that
\* name it lose their availability_id (the relationship has no delete cascade)
delete_availability_commit(p) ==
    /\ reqs[p].op = "davail"
    /\ reqs[p].pc = "commit"
    /\ IF reqs[p].aid \in Ids(avails)
       THEN /\ avails' = Remove(avails, {reqs[p].aid})
            /\ slots' = [s \in Ids(slots) |->
                            IF slots[s].availability_id = reqs[p].aid
                            THEN [slots[s] EXCEPT !.availability_id = NoId]
                            ELSE slots[s]]
            /\ reqs' = [reqs EXCEPT ![p] = Done(@, 200)]
       ELSE /\ reqs' = [reqs EXCEPT ![p] = Done(@, 500)]
            /\ UNCHANGED <<avails, slots>>
    /\ UNCHANGED <<today, visits, complaints, diagnoses, seq, gen, genDone, calls, sched>>

\* the rows the overlap SELECT of create_schedule returns
OverlappingSlots(d, date, st, en) ==
    {s \in Ids(slots) : /\ slots[s].doctor_id = d
                         /\ slots[s].date = date
                         /\ Overlaps(slots[s].start_time, slots[s].end_time, st, en)}

\* what create_schedule answers before its overlap SELECT: the validator of the
\* request body (422), the time range check, the SELECT of the doctor's active
\* window, the weekday and time checks against it; 0 to go on
ScheduleCheck(d, aid, date, st, en) ==
    IF date < today THEN 422
    ELSE IF st >= en THEN 400
    ELSE IF ~(/\ aid \in Ids(avails)
              /\ avails[aid].doctor_id = d
              /\ avails[aid].status = "active") THEN 404
    ELSE IF day_name(weekday(date)) # avails[aid].day_of_week THEN 400
    ELSE IF st < avails[aid].start_time \/ en > avails[aid].end_time THEN 400
    ELSE 0

\* POST /doctor/schedules up to the SELECT of the window
create_schedule(p, d, aid, date, st, en) ==
    /\ CanCall(p)
    /\ calls' = calls + 1
    /\ LET rq == [Started("cslot", d, NoId) EXCEPT !.aid = aid, !.date = date,
                                                  !.st = st, !.en = en]
       IN  IF ScheduleCheck(d, aid, date, st, en) # 0
           THEN reqs' = [reqs EXCEPT ![p] = Done(rq, ScheduleCheck(d, aid, date, st, en))]
           ELSE reqs' = [reqs EXCEPT ![p] = [rq EXCEPT !.pc = "overlap"]]
    /\ UNCHANGED <<today, avails, slots, visits, complaints, diagnoses, seq, gen, genDone, sched>>

\* the overlap SELECT of create_schedule
schedule_check_overlap(p) ==
    /\ reqs[p].op = "cslot"
    /\ reqs[p].pc = "overlap"
    /\ LET code == OverlapAnswer(OverlappingSlots(reqs[p].who, reqs[p].date,
                                                  reqs[p].st, reqs[p].en))
       IN  IF code # 0
           THEN reqs' = [reqs EXCEPT ![p] = Done(@, code)]
           ELSE reqs' = [reqs EXCEPT ![p].pc = "commit"]
    /\ UNCHANGED <<today, avails, slots, visits, complaints, diagnoses, seq, gen, genDone, calls, sched>>

\* db.add(db_schedule); await db.commit() (availability_id is a foreign key)
schedule_commit(p) ==
    /\ reqs[p].op = "cslot"
    /\ reqs[p].pc = "commit"
    /\ IF reqs[p].aid \in Ids(avails)
       THEN /\ slots' = Insert(slots, seq.slot,
                           NewSlot([doctor_id |-> reqs[p].who, availability_id |-> reqs[p].aid,
                                    date |-> reqs[p].date, start_time |-> reqs[p].st,
                                    end_time |-> reqs[p].en]))
            /\ seq' = [seq EXCEPT !.slot = @ + 1]
            /\ reqs' = [reqs EXCEPT ![p] = Done([@ EXCEPT !.sid = seq.slot], 200)]
       ELSE /\ reqs' = [reqs EXCEPT ![p] = Done(@, 500)]
            /\ UNCHANGED <<slots, seq>>
    /\ UNCHANGED <<today, avails, visits, complaints, diagnoses, gen, genDone, calls, sched>>

\* PUT /doctor/schedules/{id}: the SELECT by id and doctor
update_schedule(p, d, sid, field, date, st, en) ==
    /\ CanCall(p)
    /\ calls' = calls + 1
    /\ LET rq == [Started("uslot", d, sid) EXCEPT !.arg = field, !.date = date,
                                                 !.st = st, !.en = en]
       IN  IF sid \in Ids(slots) /\ slots[sid].doctor_id = d
           THEN reqs' = [reqs EXCEPT ![p] = [rq EXCEPT !.pc = "commit"]]
           ELSE reqs' = [reqs EXCEPT ![p] = Done(rq, 404)]
    /\ UNCHANGED <<today, avails, slots, visits, complaints, diagnoses, seq, gen, genDone, sched>>

\* the setattr loop and the commit: an UPDATE by primary key of the fields set
update_schedule_commit(p) ==
    /\ reqs[p].op = "uslot"
    /\ reqs[p].pc = "commit"
    /\ IF reqs[p].sid \in Ids(slots)
       THEN /\ slots' = [slots EXCEPT ![reqs[p].sid] = Updated(@, reqs[p])]
            /\ reqs' = [reqs EXCEPT ![p] = Done(@, 200)]
       ELSE /\ reqs' = [reqs EXCEPT ![p] = Done(@, 500)]
            /\ UNCHANGED slots
    /\ UNCHANGED <<today, avails, visits, complaints, diagnoses, seq, gen, genDone, calls, sched>>

\* ------------------------------------------------------------ the booking model
\* the windows the slots of Init were generated from
SeedWindows ==
    1 :> [doctor_id |-> "d1", day_of_week |-> "Monday", start_time |-> 0,
          end_time |-> SlotMinutes, status |-> "active"]

\* the tables after one generator run over the seed windows
Init ==
    /\ today = StartDay
    /\ avails = SeedWindows
    /\ slots = InsertAll(EmptyTable, 1, ToAdd(ActiveWindows(SeedWindows), EmptyTable, StartDay))
    /\ visits = EmptyTable
    /\ complaints = {}
    /\ diagnoses = {}
    /\ seq = [slot |-> 1 + Cardinality(ToAdd(ActiveWindows(SeedWindows), EmptyTable, StartDay)),
              visit |-> 1, avail |-> 1 + Cardinality(Ids(avails))]
    /\ reqs = [p \in Procs |-> ReqIdle]
    /\ gen = [r \in GenRuns |-> GenIdle]
    /\ genDone = [day |-> StartDay, table |-> slots, again |-> FALSE]
    /\ calls = 0
    /\ sched = SchedStarted

\* the ids a caller may name: every row, and the next id, which is no row
SlotInputs == Ids(slots) \cup {seq.slot}
VisitInputs == Ids(visits) \cup {seq.visit}
DateInputs == {slots[s].date : s \in Ids(slots)} \cup {today}
\* the students a doctor names: one that exists and one that does not
StudentInputs == {"s1", "s0"}

Next ==
    \/ \E p \in Procs, s \in Students, sid \in SlotInputs : create_visit_and_complaint(p, s, sid)
    \/ \E p \in Procs : complaint_check_visit(p)
    \/ \E p \in Procs, s \in Students, sid \in SlotInputs : book_schedule(p, s, sid)
    \/ \E p \in Procs : claim_commit(p)
    \/ \E p \in Procs, s \in Students, sid \in SlotInputs, date \in DateInputs :
          student_create_visit(p, s, sid, date)
    \/ \E p \in Procs : student_check_visits(p)
    \/ \E p \in Procs, d \in Doctors, stu \in StudentInputs, sid \in SlotInputs \cup {NoId},
          date \in DateInputs, status \in VisitStatus :
          doctor_create_visit(p, d, stu, sid, date, status)
    \/ \E p \in Procs : visit_commit(p)
    \/ \E p \in Procs, d \in Doctors, sid \in SlotInputs : cancel_schedule(p, d, sid)
    \/ \E p \in Procs : cancel_commit(p)
    \/ \E p \in Procs, d \in Doctors, vid \in VisitInputs : complete_visit(p, d, vid)
    \/ \E p \in Procs : complete_commit_visit(p)
    \/ \E p \in Procs : complete_read_slot(p)
    \/ \E p \in Procs : complete_commit_slot(p)

Spec == Init /\ [][Next]_vars

\* the availability rows a doctor can have stored (create_availability and
\* update_availability between them validate neither order nor overlap): the
\* first window takes every pair of times, the others a whole slot or two slots
\* and a remainder, for either doctor
FirstWindowRows ==
    [doctor_id : {"d1"}, day_of_week : {"Monday"},
     start_time : Times, end_time : Times, status : AvailabilityStatus]

WindowRows ==
    [doctor_id : Doctors, day_of_week : {"Monday", "Tuesday"},
     start_time : {0}, end_time : {SlotMinutes, 2 * SlotMinutes + Granule},
     status : {"active"}]

InitGen ==
    /\ today = StartDay
    /\ \E n \in 1..MaxAvail :
           avails \in {f \in [1..n -> WindowRows \cup FirstWindowRows] :
                          /\ f[1] \in FirstWindowRows
                          /\ \A i \in 2..n : f[i] \in WindowRows}
    /\ slots = EmptyTable
    /\ visits = EmptyTable
    /\ complaints = {}
    /\ diagnoses = {}
    /\ seq = [slot |-> 1, visit |-> 1, avail |-> 1 + Cardinality(Ids(avails))]
    /\ reqs = [p \in Procs |-> ReqIdle]
    /\ gen = [r \in GenRuns |-> GenIdle]
    /\ genDone = [day |-> -1, table |-> EmptyTable, again |-> FALSE]
    /\ calls = 0
    /\ sched = SchedStarted

NextGen ==
    \/ \E r \in GenRuns : GenRead(r)
    \/ \E r \in GenRuns : GenCommit(r)
    \/ Tick

SpecGen == InitGen /\ [][NextGen]_vars

\* -------------------------------------------------------- the cleaner model
\* the tables after a generator run of the week before and one of this week:
\* one slot dated in the past and one dated ahead
LastWeek == StartDay - 7

InitClean ==
    /\ today = StartDay
    /\ avails = SeedWindows
    /\ slots = LET wins == ActiveWindows(SeedWindows)
                   old == InsertAll(EmptyTable, 1, ToAdd(wins, EmptyTable, LastWeek))
               IN  InsertAll(old, 1 + Cardinality(Ids(old)), ToAdd(wins, old, StartDay))
    /\ visits = EmptyTable
    /\ complaints = {}
    /\ diagnoses = {}
    /\ seq = [slot |-> 1 + Cardinality(Ids(slots)), visit |-> 1,
              avail |-> 1 + Cardinality(Ids(avails))]
    /\ reqs = [p \in Procs |-> ReqIdle]
    /\ gen = [r \in GenRuns |-> GenIdle]
    /\ genDone = [day |-> StartDay, table |-> slots, again |-> FALSE]
    /\ calls = 0
    /\ sched = SchedStarted

NextClean ==
    \/ \E p \in Procs, s \in {"s1"}, sid \in Ids(slots) : create_visit_and_complaint(p, s, sid)
    \/ \E p \in Procs : complaint_check_visit(p)
    \/ \E p \in Procs : claim_commit(p)
    \/ \E p \in Procs, sid \in Ids(slots), date \in DateInputs :
          doctor_create_visit(p, "d1", "s1", sid, date, "pending")
    \/ \E p \in Procs, sid \in Ids(slots) :
          student_create_visit(p, "s1", sid, slots[sid].date)
    \/ \E p \in Procs : student_check_visits(p)
    \/ \E p \in Procs : visit_commit(p)
    \/ \E p \in Procs, sid \in Ids(slots) : cancel_schedule(p, "d1", sid)
    \/ \E p \in Procs : cancel_commit(p)
    \/ \E p \in Procs, vid \in Ids(visits) : complete_visit(p, "d1", vid)
    \/ \E p \in Procs : complete_commit_visit(p)
    \/ \E p \in Procs : complete_read_slot(p)
    \/ \E p \in Procs : complete_commit_slot(p)
    \/ cleanup_past_schedules
    \/ Tick

SpecClean == InitClean /\ [][NextClean]_vars

\* --------------------------------------------------- the availability model
\* no window stored yet
InitAvail ==
    /\ today = StartDay
    /\ avails = EmptyTable
    /\ slots = EmptyTable
    /\ visits = EmptyTable
    /\ complaints = {}
    /\ diagnoses = {}
    /\ seq = [slot |-> 1, visit |-> 1, avail |-> 1]
    /\ reqs = [p \in Procs |-> ReqIdle]
    /\ gen = [r \in GenRuns |-> GenIdle]
    /\ genDone = [day |-> NoDay, table |-> EmptyTable, again |-> FALSE]
    /\ calls = 0
    /\ sched = SchedStarted

\* the times a doctor names for a window: whole slots
WindowTimes == {t \in Times : t % SlotMinutes = 0}
WindowInputs == Ids(avails) \cup {seq.avail}

NextAvail ==
    \/ \E p \in Procs, d \in Doctors, st \in WindowTimes, en \in WindowTimes,
          status \in AvailabilityStatus :
          create_availability(p, d, "Monday", st, en, status)
    \/ \E p \in Procs : availability_commit(p)
    \/ \E p \in Procs, d \in Doctors, aid \in WindowInputs,
          field \in {"start_time", "end_time", "times"}, st \in WindowTimes, en \in WindowTimes :
          update_availability(p, d, aid, field, st, en, "none")
    \/ \E p \in Procs, d \in Doctors, aid \in WindowInputs,
          field \in {"day_of_week", "status"}, value \in {"Monday", "Tuesday"} \cup AvailabilityStatus :
          /\ (field = "status") <=> (value \in AvailabilityStatus)
          /\ update_availability(p, d, aid, field, 0, 0, value)
    \/ \E p \in Procs : update_availability_commit(p)
    \/ \E p \in Procs, d \in Doctors, aid \in WindowInputs : delete_availability(p, d, aid)
    \/ \E p \in Procs : delete_availability_commit(p)

SpecAvail == InitAvail /\ [][NextAvail]_vars

\* ----------------------------------------------------------- the slot model
\* a window of two whole slots, and the tables after one generator run over it
SlotWindows ==
    1 :> [doctor_id |-> "d1", day_of_week |-> "Monday", start_time |-> 0,
          end_time |-> 2 * SlotMinutes, status |-> "active"]

InitSlots ==
    /\ today = StartDay
    /\ avails = SlotWindows
    /\ slots = InsertAll(EmptyTable, 1, ToAdd(ActiveWindows(SlotWindows), EmptyTable, StartDay))
    /\ visits = EmptyTable
    /\ complaints = {}
    /\ diagnoses = {}
    /\ seq = [slot |-> 1 + Cardinality(Ids(slots)), visit |-> 1,
              avail |-> 1 + Cardinality(Ids(avails))]
    /\ reqs = [p \in Procs |-> ReqIdle]
    /\ gen = [r \in GenRuns |-> GenIdle]
    /\ genDone = [day |-> StartDay, table |-> slots, again |-> FALSE]
    /\ calls = 0
    /\ sched = SchedStarted

\* the dates and times a doctor names: the date of a slot or the same weekday a
\* week on; a start on or off the slot grid, an end likewise
SlotDateInputs == {slots[s].date : s \in Ids(slots)} \cup {slots[s].date + 7 : s \in Ids(slots)}
StartInputs == {0, Granule}
EndInputs == {SlotMinutes, SlotMinutes + Granule}

NextSlots ==
    \/ \E r \in GenRuns : GenRead(r)
    \/ \E r \in GenRuns : GenCommit(r)
    \/ \E p \in Procs, date \in SlotDateInputs, st \in StartInputs, en \in EndInputs :
          create_schedule(p, "d1", 1, date, st, en)
    \/ \E p \in Procs : schedule_check_overlap(p)
    \/ \E p \in Procs : schedule_commit(p)
    \/ \E p \in Procs, sid \in Ids(slots), date \in SlotDateInputs :
          update_schedule(p, "d1", sid, "date", date, 0, 0)
    \/ \E p \in Procs, sid \in Ids(slots), st \in StartInputs :
          update_schedule(p, "d1", sid, "start_time", 0, st, 0)
    \/ \E p \in Procs, sid \in Ids(slots), en \in EndInputs :
          update_schedule(p, "d1", sid, "end_time", 0, 0, en)
    \/ \E p \in Procs : update_schedule_commit(p)
    \/ \E p \in Procs, st \in StartInputs, en \in EndInputs :
          update_availability(p, "d1", 1, "times", st, en + SlotMinutes, "none")
    \/ \E p \in Procs : update_availability_commit(p)
    \/ \E p \in Procs, sid \in Ids(slots) : create_visit_and_complaint(p, "s1", sid)
    \/ \E p \in Procs : complaint_check_visit(p)
    \/ \E p \in Procs : claim_commit(p)
    \/ \E p \in Procs, sid \in Ids(slots), date \in SlotDateInputs :
          doctor_create_visit(p, "d1", "s1", sid, date, "pending")
    \/ \E p \in Procs : visit_commit(p)

SpecSlots == InitSlots /\ [][NextSlots]_vars

\* ------------------------------------------------------- the scheduler model
\* the process has started on a Monday (day 0): the seed window, no slot yet
InitSched ==
    /\ today = 0
    /\ avails = SeedWindows
    /\ slots = EmptyTable
    /\ visits = EmptyTable
    /\ complaints = {}
    /\ diagnoses = {}
    /\ seq = [slot |-> 1, visit |-> 1, avail |-> 1 + Cardinality(Ids(avails))]
    /\ reqs = [p \in Procs |-> ReqIdle]
    /\ gen = [r \in GenRuns |-> GenIdle]
    /\ genDone = [day |-> NoDay, table |-> EmptyTable, again |-> FALSE]
    /\ calls = 0
    /\ sched = SchedStarted

NextSched ==
    \/ generate_job
    \/ generate_job_fails
    \/ GenCommit(JobRun)
    \/ cleanup_past_schedules
    \/ cleanup_fails
    \/ shutdown_event
    \/ job_cancelled
    \/ Tick

SpecSched == InitSched /\ [][NextSched]_vars

\* --------------------------------------------------------- the trigger model
\* the process on a Monday, before startup_event: the seed window, no slot yet
InitTrigger ==
    /\ today = 0
    /\ avails = SeedWindows
    /\ slots = EmptyTable
    /\ visits = EmptyTable
    /\ complaints = {}
    /\ diagnoses = {}
    /\ seq = [slot |-> 1, visit |-> 1, avail |-> 1 + Cardinality(Ids(avails))]
    /\ reqs = [p \in Procs |-> ReqIdle]
    /\ gen = [r \in GenRuns |-> GenIdle]
    /\ genDone = [day |-> NoDay, table |-> EmptyTable, again |-> FALSE]
    /\ calls = 0
    /\ sched = SchedNew

\* requests are served once startup_event has run; run ManualRun is that of
\* POST /dev/schedule-generator
ManualRun == 2

NextTrigger ==
    \/ startup_event
    \/ trigger_time
    \/ sched.at = "due" /\ HasJob(CleanJob) /\ cleanup_past_schedules
    \/ sched.at = "due" /\ HasJob(GenJob) /\ generate_job
    \/ trigger_done
    \/ midnight
    \/ \E r \in GenRuns : GenCommit(r)
    \/ sched.starts = 1 /\ GenRead(ManualRun)
    \/ shutdown_event
    \/ \E p \in Procs, sid \in Ids(slots) :
          sched.starts = 1 /\ create_visit_and_complaint(p, "s1", sid)
    \/ \E p \in Procs : complaint_check_visit(p)
    \/ \E p \in Procs : claim_commit(p)

SpecTrigger == InitTrigger /\ [][NextTrigger]_vars

\* ------------------------------------------------- the slot creation model
\* d1's window of two whole slots on Mondays and an inactive window on
\* Tuesdays, and the tables after one generator run over them
CreateWindows ==
    SlotWindows @@
    (2 :> [doctor_id |-> "d1", day_of_week |-> "Tuesday", start_time |-> 0,
           end_time |-> 2 * SlotMinutes, status |-> "inactive"])

InitCreate ==
    /\ today = StartDay
    /\ avails = CreateWindows
    /\ slots = InsertAll(EmptyTable, 1, ToAdd(ActiveWindows(CreateWindows), EmptyTable, StartDay))
    /\ visits = EmptyTable
    /\ complaints = {}
    /\ diagnoses = {}
    /\ seq = [slot |-> 1 + Cardinality(Ids(slots)), visit |-> 1,
              avail |-> 1 + Cardinality(Ids(avails))]
    /\ reqs = [p \in Procs |-> ReqIdle]
    /\ gen = [r \in GenRuns |-> GenIdle]
    /\ genDone = [day |-> StartDay, table |-> slots, again |-> FALSE]
    /\ calls = 0
    /\ sched = SchedStarted

\* the bodies of POST /doctor/schedules a doctor sends, by the Monday and the
\* window they mean: a slot of the window, a range across two slots, and one
\* request for each way of being wrong
CreateRequest(d, aid, date, st, en) == [d |-> d, aid |-> aid, date |-> date, st |-> st, en |-> en]

CreateInputs ==
    LET monday == today + (7 - weekday(today))
    IN  {CreateRequest("d1", 1, monday + 7, 0, SlotMinutes),
         CreateRequest("d1", 1, monday + 7, SlotMinutes, 2 * SlotMinutes),
         CreateRequest("d1", 1, monday + 7, Granule, SlotMinutes + Granule),
         CreateRequest("d1", 1, monday, 0, SlotMinutes),
         CreateRequest("d1", 1, monday, Granule, SlotMinutes + Granule),
         CreateRequest("d1", 1, monday, SlotMinutes, SlotMinutes),
         CreateRequest("d1", 1, monday - 7, 0, SlotMinutes),
         CreateRequest("d1", 1, monday + 1, 0, SlotMinutes),
         CreateRequest("d1", 1, monday, SlotMinutes, 2 * SlotMinutes + Granule),
         CreateRequest("d1", 2, monday + 1, 0, SlotMinutes),
         CreateRequest("d1", seq.avail, monday, 0, SlotMinutes),
         CreateRequest("d2", 1, monday, 0, SlotMinutes)}

NextCreate ==
    \/ \E p \in Procs, c \in CreateInputs : create_schedule(p, c.d, c.aid, c.date, c.st, c.en)
    \/ \E p \in Procs : schedule_check_overlap(p)
    \/ \E p \in Procs : schedule_commit(p)

SpecCreate == InitCreate /\ [][NextCreate]_vars

\* ------------------------------------------------------ the consultation model
\* the tables after one generator run over SlotWindows and one Claim: the first
\* slot is booked by s1, whose pending visit has a complaint; the second is
\* available
InitVisit ==
    /\ today = StartDay
    /\ avails = SlotWindows
    /\ slots = LET made == InsertAll(EmptyTable, 1,
                                     ToAdd(ActiveWindows(SlotWindows), EmptyTable, StartDay))
               IN  [made EXCEPT ![1] = ClaimedSlot(@, Started("complaint", "s1", 1))]
    /\ visits = Insert(EmptyTable, 1,
                       ClaimVisit([Started("complaint", "s1", 1) EXCEPT
                                      !.doc = slots[1].doctor_id, !.date = slots[1].date]))
    /\ complaints = {1}
    /\ diagnoses = {}
    /\ seq = [slot |-> 1 + Cardinality(Ids(slots)), visit |-> 2,
              avail |-> 1 + Cardinality(Ids(avails))]
    /\ reqs = [p \in Procs |-> ReqIdle]
    /\ gen = [r \in GenRuns |-> GenIdle]
    /\ genDone = [day |-> StartDay, table |-> slots, again |-> FALSE]
    /\ calls = 0
    /\ sched = SchedStarted

Pharmacists == {"ph1"}

NextVisit ==
    \/ \E p \in Procs, sid \in Ids(slots) : create_visit_and_complaint(p, "s2", sid)
    \/ \E p \in Procs : complaint_check_visit(p)
    \/ \E p \in Procs : claim_commit(p)
    \/ \E p \in Procs, sid \in Ids(slots), status \in {"pending", "cancelled"} :
          doctor_create_visit(p, "d1", "s1", sid, slots[sid].date, status)
    \/ \E p \in Procs : visit_commit(p)
    \/ \E p \in Procs, vid \in VisitInputs, stu \in Students, cid \in complaints :
          create_diagnosis(p, "d1", vid, stu, cid)
    \/ \E p \in Procs : diagnosis_commit(p)
    \/ \E p \in Procs : diagnosis_read_slot(p)
    \/ \E p \in Procs : diagnosis_commit_slot(p)
    \/ \E p \in Procs, vid \in VisitInputs : complete_visit(p, "d1", vid)
    \/ \E p \in Procs : complete_commit_visit(p)
    \/ \E p \in Procs : complete_read_slot(p)
    \/ \E p \in Procs : complete_commit_slot(p)
    \/ \E p \in Procs, ph \in Pharmacists, vid \in VisitInputs : create_dispensation(p, ph, vid)
    \/ \E p \in Procs, sid \in Ids(slots) : cancel_schedule(p, "d1", sid)
    \/ \E p \in Procs : cancel_commit(p)

SpecVisit == InitVisit /\ [][NextVisit]_vars

\* ------------------------------------------------------------ properties
\* the outcome classes of the error taxonomy, as response codes: a rejection of
\* the request (4xx) stands for Conflict and NotFound, 500 is Internal
Success == {200, 201}
Rejections == {400, 403, 404, 409}
ConflictCodes == {400, 409}
NotFoundCodes == {400, 404}

ClaimOps == {"complaint", "book"}

\* process p issues a call of handler op in this step
Issues(p, op) ==
    /\ reqs[p].pc \in {"idle", "done"}
    /\ reqs'[p] # reqs[p]
    /\ reqs'[p].op = op

\* the call of process p returns in this step
Returns(p, op) ==
    /\ reqs[p].op = op
    /\ reqs[p].pc \notin {"idle", "done"}
    /\ reqs'[p].pc = "done"

TablesUnchanged == slots' = slots /\ visits' = visits /\ complaints' = complaints

\* the visits that successful Claims created for a slot
ClaimVisits(sid) ==
    {v \in Ids(visits) : visits[v].schedule_id = sid /\ visits[v].via = "claim"}

\* the recorded Claim calls that were issued on slot sid while it was unclaimed
ClaimGroup(sid) ==
    {p \in Procs : reqs[p].op \in ClaimOps /\ reqs[p].sid = sid /\ reqs[p].free}

\* C1: of the Claim calls issued on the same available, unclaimed slot, once all
\* have returned, exactly one has returned success and every other Conflict.
C1_ExactlyOneWinner ==
    \A sid \in Ids(slots) :
        (/\ ClaimGroup(sid) # {}
         /\ \A p \in Procs : (reqs[p].op \in ClaimOps /\ reqs[p].sid = sid)
                                => reqs[p].pc = "done")
        => /\ Cardinality(ClaimVisits(sid)) = 1
           /\ \A p \in ClaimGroup(sid) : reqs[p].res \in Success \cup ConflictCodes

\* C1, the half that the interleaving of two claims decides: no slot has two
\* successful Claims.
C1_NoDoubleClaim == \A sid \in Ids(slots) : Cardinality(ClaimVisits(sid)) <= 1

\* C2: every slot has at most one linked visit that is not cancelled.
C2_OneActiveVisit ==
    \A sid \in Ids(slots) :
        Cardinality({v \in Ids(visits) : /\ visits[v].schedule_id = sid
                                         /\ visits[v].status # "cancelled"}) <= 1

ClaimSucceeds(p) ==
    /\ reqs[p].op \in ClaimOps
    /\ Returns(p, reqs[p].op)
    /\ reqs'[p].res = 201

\* C3: a successful Claim sets the slot's student and the status booked, inserts
\* exactly one visit (pending, linked to the slot, of the slot's doctor, on the
\* slot's date), and leaves the slot's doctor, date and times as they were.
C3_ClaimEffect ==
    [][\A p \in Procs : ClaimSucceeds(p) =>
         LET sid == reqs[p].sid
             new == Ids(visits') \ Ids(visits)
         IN  /\ slots'[sid].student_id = reqs[p].who
             /\ slots'[sid].status = "booked"
             /\ Cardinality(new) = 1
             /\ \A v \in new :
                   /\ visits'[v].status = "pending"
                   /\ visits'[v].schedule_id = sid
                   /\ visits'[v].student_id = reqs[p].who
                   /\ visits'[v].doctor_id = slots'[sid].doctor_id
                   /\ visits'[v].visit_date = slots'[sid].date
             /\ \A v \in Ids(visits) : v \in Ids(visits') /\ visits'[v] = visits[v]
             /\ slots'[sid].doctor_id = slots[sid].doctor_id
             /\ slots'[sid].date = slots[sid].date
             /\ slots'[sid].start_time = slots[sid].start_time
             /\ slots'[sid].end_time = slots[sid].end_time
             /\ Ids(slots') = Ids(slots)
             /\ \A o \in Ids(slots) \ {sid} : slots'[o] = slots[o]]_vars

\* a Claim has returned success on a slot that is now booked for the caller
C3_Witness ==
    \E p \in Procs :
        /\ reqs[p].op \in ClaimOps
        /\ reqs[p].pc = "done"
        /\ reqs[p].res = 201
        /\ slots[reqs[p].sid].status = "booked"
        /\ slots[reqs[p].sid].student_id = reqs[p].who
        /\ visits[reqs[p].vid].schedule_id = reqs[p].sid

\* C4: a Claim issued on a slot that exists but is claimed or not claimable
\* returns Conflict, one issued on an id that is no slot returns NotFound, and
\* neither changes a slot or a visit.
C4_ClaimRejection ==
    [][\A p \in Procs : (Issues(p, "complaint") \/ Issues(p, "book")) =>
         LET sid == reqs'[p].sid
         IN  /\ sid \notin Ids(slots) =>
                   /\ reqs'[p].pc = "done"
                   /\ reqs'[p].res \in NotFoundCodes
                   /\ TablesUnchanged
             /\ (sid \in Ids(slots) /\ ~Unclaimed(sid)) =>
                   /\ reqs'[p].pc = "done"
                   /\ reqs'[p].res \in ConflictCodes
                   /\ TablesUnchanged]_vars

CancellableStatus == {"available", "booked", "pending"}

\* C5: a Cancel by the owning doctor goes through only on a slot that is
\* available, booked or pending, and then sets it cancelled; on a completed slot
\* it is rejected and the slot stays completed.
C5_CancelGuard ==
    [][\A p \in Procs :
         /\ Issues(p, "cancel") =>
              LET sid == reqs'[p].sid
              IN  (sid \in Ids(slots) /\ slots[sid].doctor_id = reqs'[p].who) =>
                     /\ reqs'[p].pc = "commit" => slots[sid].status \in CancellableStatus
                     /\ slots[sid].status = "completed" =>
                           /\ reqs'[p].pc = "done"
                           /\ reqs'[p].res \in Rejections
                           /\ slots' = slots
         /\ (Returns(p, "cancel") /\ reqs'[p].res = 200) =>
              slots'[reqs[p].sid].status = "cancelled"]_vars

\* C6: a Cancel issued on a cancelled slot returns Conflict and changes nothing,
\* and no slot has two Cancel calls that returned success.
C6_CancelOnce ==
    [][\A p \in Procs :
         /\ Issues(p, "cancel") =>
              LET sid == reqs'[p].sid
              IN  (/\ sid \in Ids(slots)
                   /\ slots[sid].doctor_id = reqs'[p].who
                   /\ slots[sid].status = "cancelled") =>
                     /\ reqs'[p].pc = "done"
                     /\ reqs'[p].res \in ConflictCodes
                     /\ TablesUnchanged
         /\ (Returns(p, "cancel") /\ reqs'[p].res = 200) =>
              ~\E q \in Procs \ {p} : /\ reqs[q].op = "cancel"
                                      /\ reqs[q].sid = reqs[p].sid
                                      /\ reqs[q].pc = "done"
                                      /\ reqs[q].res = 200]_vars

\* C7: a Complete by doctor d is rejected exactly when the visit does not exist,
\* is not pending or is not d's, and a rejected call changes no visit and no
\* slot; when a Complete returns success the visit is completed and so is the
\* slot it is linked to.
C7_Complete ==
    [][\A p \in Procs :
         /\ Issues(p, "complete") =>
              LET vid == reqs'[p].vid
                  ok == /\ vid \in Ids(visits)
                        /\ visits[vid].status = "pending"
                        /\ visits[vid].doctor_id = reqs'[p].who
              IN  /\ (reqs'[p].pc = "done") <=> ~ok
                  /\ reqs'[p].pc = "done" =>
                        /\ reqs'[p].res \in Rejections
                        /\ TablesUnchanged
         /\ Returns(p, "complete") =>
              /\ reqs'[p].res = 200
              /\ visits'[reqs[p].vid].status = "completed"
              /\ reqs[p].sid \in Ids(slots') => slots'[reqs[p].sid].status = "completed"]_vars

\* a Complete has returned success for a visit linked to a slot
C7_Witness ==
    \E p \in Procs :
        /\ reqs[p].op = "complete"
        /\ reqs[p].pc = "done"
        /\ reqs[p].res = 200
        /\ reqs[p].sid \in Ids(slots)
        /\ visits[reqs[p].vid].status = "completed"
        /\ slots[reqs[p].sid].status = "completed"

SlotTransitions ==
    {<<"available", "booked">>, <<"booked", "completed">>,
     <<"available", "cancelled">>, <<"booked", "cancelled">>}

\* C8: every change of a slot's status is available -> booked, booked ->
\* completed, available -> cancelled or booked -> cancelled; a completed or
\* cancelled slot keeps its status.
C8_SlotStateMachine ==
    [][\A sid \in Ids(slots) \cap Ids(slots') :
         slots'[sid].status # slots[sid].status =>
            <<slots[sid].status, slots'[sid].status>> \in SlotTransitions]_vars

GenCommits(r) == gen[r].pc = "commit" /\ gen'[r].pc = "idle"

\* the slots a step inserted for window a
CreatedFor(a) == {s \in Ids(slots') \ Ids(slots) : slots'[s].availability_id = a}

\* C9: a generator run creates, for every active window with start < end whose
\* doctor had no slot on the window's date, exactly floor((end - start) / 20)
\* slots on that date, the i-th being [start + 20 i, start + 20 (i + 1)).
C9_Tiling ==
    [][\A r \in GenRuns : GenCommits(r) =>
         \A a \in gen[r].fresh :
            LET w == gen[r].wins[a]
                k == (w.end_time - w.start_time) \div SlotMinutes
            IN  w.start_time < w.end_time =>
                  /\ Cardinality(CreatedFor(a)) = k
                  /\ {<<slots'[s].start_time, slots'[s].end_time>> : s \in CreatedFor(a)}
                       = {<<w.start_time + SlotMinutes * i, w.start_time + SlotMinutes * (i + 1)>> :
                            i \in 0..(k - 1)}
                  /\ \A s \in CreatedFor(a) :
                        /\ slots'[s].doctor_id = w.doctor_id
                        /\ slots'[s].date \in get_next_week_dates_for_day(w.day_of_week, gen[r].day)]_vars

\* a run has tiled a window that holds two whole slots and a remainder
C9_Witness ==
    \E a \in Ids(avails) :
        /\ avails[a].status = "active"
        /\ avails[a].end_time - avails[a].start_time > 2 * SlotMinutes
        /\ (avails[a].end_time - avails[a].start_time) % SlotMinutes # 0
        /\ Cardinality({s \in Ids(slots) : slots[s].availability_id = a}) = 2

\* C10: a generator run that starts on the date of the last committed run, with
\* the slot table as that run left it, adds no slot.
C10_Idempotent ==
    [][\A r \in GenRuns : (GenCommits(r) /\ gen[r].rerun) => slots' = slots]_vars

\* a second run has committed over a table the first run filled
C10_Witness == genDone.again /\ genDone.table # EmptyTable

\* a scheduled cleaner run happens in this step
CleanerRuns == sched'.cleanDay # sched.cleanDay

\* C11: a cleaner run on date D deletes every slot with date < D and status
\* available and nothing else: every other slot is still there, unchanged.
C11_CleanerEffect ==
    [][CleanerRuns =>
         /\ Ids(slots') = Ids(slots) \ PastAvailable(slots, today)
         /\ \A s \in Ids(slots') : slots'[s] = slots[s]]_vars

\* C16: every availability window has start < end, and no two active windows
\* of the same doctor and day of week overlap.
C16_WindowsValid ==
    /\ \A a \in Ids(avails) : avails[a].start_time < avails[a].end_time
    /\ \A a \in Ids(avails), b \in Ids(avails) :
          (/\ a # b
           /\ avails[a].status = "active" /\ avails[b].status = "active"
           /\ avails[a].doctor_id = avails[b].doctor_id
           /\ avails[a].day_of_week = avails[b].day_of_week)
          => ~Overlaps(avails[a].start_time, avails[a].end_time,
                       avails[b].start_time, avails[b].end_time)

\* C16, the create rule alone: a create_availability issued while an active
\* window of the doctor and day overlaps its range returns Conflict and stores
\* nothing.
C16_CreateRejected ==
    [][\A p \in Procs :
         (/\ Issues(p, "cavail")
          /\ reqs'[p].st < reqs'[p].en
          /\ \E a \in OverlappingWindows(reqs'[p].who, reqs'[p].day, reqs'[p].st, reqs'[p].en) :
                avails[a].status = "active")
         => /\ reqs'[p].pc = "done"
            /\ reqs'[p].res \in ConflictCodes
            /\ avails' = avails]_vars

\* C12: no two distinct slots of the same doctor on the same date have
\* overlapping time ranges.
C12_NoOverlap ==
    \A a \in Ids(slots), b \in Ids(slots) :
        (a # b /\ slots[a].doctor_id = slots[b].doctor_id /\ slots[a].date = slots[b].date)
        => ~Overlaps(slots[a].start_time, slots[a].end_time,
                     slots[b].start_time, slots[b].end_time)

\* C17: every visit that is linked to a slot has the slot's date as its visit
\* date.
C17_VisitDate ==
    \A v \in Ids(visits) :
        visits[v].schedule_id \in Ids(slots) =>
            visits[v].visit_date = slots[visits[v].schedule_id].date

\* C18: no step changes the date, the start time or the end time of a slot
\* that exists.
C18_TimesFixed ==
    [][\A sid \in Ids(slots) \cap Ids(slots') :
         /\ slots'[sid].date = slots[sid].date
         /\ slots'[sid].start_time = slots[sid].start_time
         /\ slots'[sid].end_time = slots[sid].end_time]_vars

\* a step of a generator run
GenSteps(r) == gen'[r] # gen[r] \/ GenCommits(r)

\* C13: a generator run only inserts slots: every slot that was there is still
\* there with every field as it was, no visit and no window changes, and every
\* inserted slot is available, has no patient, and carries the id and the doctor
\* of a window the run selected.
C13_OnlyInserts ==
    [][\A r \in GenRuns : GenSteps(r) =>
         /\ \A s \in Ids(slots) : s \in Ids(slots') /\ slots'[s] = slots[s]
         /\ visits' = visits
         /\ avails' = avails
         /\ \A s \in Ids(slots') \ Ids(slots) :
               /\ slots'[s].status = "available"
               /\ slots'[s].student_id = NoStudent
               /\ slots'[s].availability_id \in Ids(gen[r].wins)
               /\ slots'[s].doctor_id = gen[r].wins[slots'[s].availability_id].doctor_id]_vars

\* a run has inserted slots beside the slots of an earlier run
C13_Witness ==
    /\ genDone.table = slots
    /\ \E s \in Ids(slots), o \in Ids(slots) : slots[s].date = genDone.day + 7 /\ slots[o].date < slots[s].date

\* the first Monday strictly after day t
FirstMondayAfter(t) == CHOOSE m \in (t + 1)..(t + 7) : weekday(m) = 0

\* C14: the slots a run on date T creates from a window of day-of-week d are all
\* on one date, which lies in the seven days from the first Monday strictly
\* after T and has weekday d; each window has exactly one such date.
C14_TargetWeek ==
    [][\A r \in GenRuns : GenCommits(r) =>
         \A a \in Ids(gen[r].wins) :
            LET w == gen[r].wins[a]
                monday == FirstMondayAfter(gen[r].day)
                dates == {slots'[s].date : s \in CreatedFor(a)}
            IN  /\ \A d \in dates : /\ monday <= d /\ d <= monday + 6
                                     /\ day_name(weekday(d)) = w.day_of_week
                /\ Cardinality(dates) <= 1
                /\ Cardinality(get_next_week_dates_for_day(w.day_of_week, gen[r].day)) = 1]_vars

\* a run on a Monday has created slots for the Monday a week later
C14_Witness ==
    /\ weekday(genDone.day) = 0
    /\ \E s \in Ids(slots) : slots[s].date = genDone.day + 7

Malformed(w) == w.start_time >= w.end_time

\* a run was started in this step and ended in it, by an exception of its reads
RunRaises == calls' # calls /\ gen' = gen

\* C15: a run creates no slot for a window that is inactive or has start >= end,
\* such a window is never what makes a run raise, and a run that commits with
\* one present still creates the whole slots of every other selected window.
C15_SkipsBadWindows ==
    [][/\ \A r \in GenRuns : GenCommits(r) =>
              /\ \A a \in Ids(avails) :
                    (avails[a].status = "inactive" \/ Malformed(avails[a]))
                        => CreatedFor(a) = {}
              /\ \A a \in gen[r].fresh :
                    ~Malformed(gen[r].wins[a]) =>
                        Cardinality(CreatedFor(a)) =
                            (gen[r].wins[a].end_time - gen[r].wins[a].start_time) \div SlotMinutes
       /\ RunRaises => \E s \in Ids(slots) : Existing(slots, slots[s]) # {s}]_vars

\* a run has committed the slots of a window beside a malformed active window
\* and beside an inactive one
C15_Witness ==
    /\ genDone.table # EmptyTable
    /\ \E a \in Ids(avails), b \in Ids(avails) :
          /\ avails[a].status = "active" /\ Malformed(avails[a])
          /\ \E s \in Ids(slots) : slots[s].availability_id = b

\* a scheduled run fails in this step
JobFails ==
    \/ sched'.genRes = "failed" /\ sched.genRes # "failed"
    \/ sched'.cleanRes = "failed" /\ sched'.cleanDay # sched.cleanDay

\* the scheduled generator run commits in this step
JobCommits == GenCommits(JobRun) /\ sched' = sched

\* C19: a scheduled run that fails commits nothing and leaves the scheduler
\* running, and the next scheduled generator run that commits leaves the table
\* with every slot the failed run had to create.
C19_FailedRunRetried ==
    [][/\ JobFails => /\ slots' = slots
                      /\ sched'.running = sched.running
       /\ JobCommits => \A c \in sched.missed : Existing(slots', c) # {}]_vars

\* C19, the part about the failed run alone: it commits nothing and the
\* scheduler keeps running.
C19_NothingCommitted ==
    [][JobFails => slots' = slots /\ sched'.running = sched.running]_vars

\* C20: once the shutdown handler has run no scheduled run starts, and a run
\* that ends commits either every row it had to add or none.
C20_Shutdown ==
    [][/\ ~sched.running =>
             /\ sched'.genDay = sched.genDay
             /\ sched'.cleanDay = sched.cleanDay
             /\ \A r \in GenRuns : gen[r].pc = "idle" => gen'[r].pc = "idle"
       /\ \A r \in GenRuns : (gen[r].pc = "commit" /\ gen'[r].pc = "idle") =>
             /\ \A s \in Ids(slots) : s \in Ids(slots') /\ slots'[s] = slots[s]
             /\ Cardinality(Ids(slots') \ Ids(slots)) \in {0, Cardinality(gen[r].toAdd)}]_vars

\* the shutdown handler has run while a scheduled run was in flight
C20_Witness == ~sched.running /\ gen[JobRun].pc = "commit" /\ gen[JobRun].toAdd # {}

\* the scheduler starts a run of the cleaner, of the generator, in this step
CleanerFires == sched'.cleanRuns # sched.cleanRuns
GeneratorFires == sched'.genRuns # sched.genRuns

\* a run of generate_schedules starts in this step
RunStarts(r) == gen[r].pc = "idle" /\ gen'[r].pc = "commit"

C22_OneSlotPerTuple == \A s \in Ids(slots) : Existing(slots, slots[s]) = {s}

\* the request is one the claim says is turned away before the overlap check
Invalid(c) ==
    \/ c.st >= c.en
    \/ c.date < today
    \/ c.aid \notin Ids(avails)
    \/ /\ c.aid \in Ids(avails)
       /\ \/ avails[c.aid].status # "active"
          \/ avails[c.aid].doctor_id # c.d
          \/ day_name(weekday(c.date)) # avails[c.aid].day_of_week
          \/ c.st < avails[c.aid].start_time
          \/ c.en > avails[c.aid].end_time

ValidationCodes == {400, 404, 422}

\* the steps of a create_schedule call: an invalid request is rejected at once,
\* an overlapping one is rejected by the overlap check with one of the codes,
\* both with the slot table unchanged; any other request creates exactly one
\* slot, available, with no patient, of the caller, window, date and times named
CreateScheduleSteps(overlapCodes) ==
    \A p \in Procs :
       /\ \A c \in CreateInputs :
             create_schedule(p, c.d, c.aid, c.date, c.st, c.en) =>
                IF Invalid(c)
                THEN /\ reqs'[p].pc = "done"
                     /\ reqs'[p].res \in ValidationCodes
                     /\ slots' = slots
                ELSE reqs'[p].pc = "overlap"
       /\ (reqs[p].op = "cslot" /\ reqs[p].pc = "overlap" /\ reqs'[p] # reqs[p]) =>
             IF OverlappingSlots(reqs[p].who, reqs[p].date, reqs[p].st, reqs[p].en) # {}
             THEN /\ reqs'[p].pc = "done"
                  /\ reqs'[p].res \in overlapCodes
                  /\ slots' = slots
             ELSE reqs'[p].pc = "commit"
       /\ (reqs[p].op = "cslot" /\ reqs[p].pc = "commit" /\ reqs'[p] # reqs[p]) =>
             /\ reqs'[p].res = 200
             /\ Ids(slots') = Ids(slots) \cup {reqs'[p].sid}
             /\ reqs'[p].sid \notin Ids(slots)
             /\ \A s \in Ids(slots) : slots'[s] = slots[s]
             /\ slots'[reqs'[p].sid] =
                   [doctor_id |-> reqs[p].who, student_id |-> NoStudent,
                    availability_id |-> reqs[p].aid, date |-> reqs[p].date,
                    start_time |-> reqs[p].st, end_time |-> reqs[p].en,
                    status |-> "available"]

\* C23: create_schedule is rejected, with the slot table unchanged, when start >=
\* end, the date is in the past, the date's weekday is not the window's, the
\* range is not inside the window, or the window does not exist, is inactive or
\* is another doctor's; it is rejected as a Conflict when the range overlaps a
\* slot of the doctor on the date; otherwise it creates exactly one slot,
\* available and with no patient.
C23_CreateSchedule == [][CreateScheduleSteps(ConflictCodes)]_vars

\* C23 with the overlap rejection of any class, Internal included
C23_CreateScheduleRejects == [][CreateScheduleSteps(ConflictCodes \cup {500})]_vars

\* process p takes a step of a Claim call
ClaimStep(p) == reqs'[p] # reqs[p] /\ reqs'[p].op \in ClaimOps

\* every slot that has a patient has a visit of that patient that a Claim made
PatientHasVisit ==
    \A s \in Ids(slots) :
        slots[s].student_id # NoStudent =>
            \E v \in ClaimVisits(s) : visits[v].student_id = slots[s].student_id

\* C24: a Claim call changes the tables in one step only, the step in which it
\* returns success, and that step sets the slot booked with the caller as its
\* patient and inserts the caller's pending visit for the slot; a call that
\* fails returns a rejection (Conflict, NotFound) or Internal and none of its
\* steps changes a slot, a visit or a complaint; no slot has a patient without
\* that patient's visit.
C24_AllOrNothing ==
    [][/\ \A p \in Procs : ClaimStep(p) =>
             IF reqs'[p].pc = "done" /\ reqs'[p].res \in Success
             THEN LET sid == reqs'[p].sid
                      new == Ids(visits') \ Ids(visits)
                  IN  /\ slots'[sid].status = "booked"
                      /\ slots'[sid].student_id = reqs'[p].who
                      /\ new = {reqs'[p].vid}
                      /\ \A v \in new : /\ visits'[v].status = "pending"
                                         /\ visits'[v].schedule_id = sid
                                         /\ visits'[v].student_id = reqs'[p].who
                      /\ reqs[p].op = "complaint" => complaints' = complaints \cup new
             ELSE /\ TablesUnchanged
                  /\ reqs'[p].pc = "done" => reqs'[p].res \in Rejections \cup {500}
       /\ PatientHasVisit']_vars

\* one Claim has returned success on a slot and another Claim on the same slot
\* has returned a failure
C24_Witness ==
    \E p \in Procs, q \in Procs :
        /\ reqs[p].op \in ClaimOps /\ reqs[p].pc = "done" /\ reqs[p].res = 201
        /\ reqs[q].op \in ClaimOps /\ reqs[q].pc = "done" /\ reqs[q].res \notin Success
        /\ reqs[q].sid = reqs[p].sid
        /\ slots[reqs[p].sid].status = "booked"
        /\ \E v \in ClaimVisits(reqs[p].sid) : visits[v].student_id = slots[reqs[p].sid].student_id

Quiet(p) == \A q \in Procs \ {p} : reqs[q].pc \in {"idle", "done"}

\* C26: a book_schedule call issued, with no other call in flight, on a slot
\* that an available-schedules listing returns goes on to book it; so does one
\* issued on a slot the generator created, available and with no patient.
C26_ListedIsBookable ==
    [][\A p \in Procs :
         (/\ Issues(p, "book")
          /\ Quiet(p)
          /\ \/ reqs'[p].sid \in get_student_available_schedules \cup get_available_schedules
             \/ Unclaimed(reqs'[p].sid))
         => reqs'[p].pc = "commit"]_vars

\* C27: every slot whose status is available has no patient, and every slot
\* whose status is booked has one.
C27_StatusAndPatient ==
    \A s \in Ids(slots) :
        /\ slots[s].status = "available" => slots[s].student_id = NoStudent
        /\ slots[s].status = "booked" => slots[s].student_id # NoStudent

\* a slot is booked for a patient while a Cancel of it is about to commit
C27_Witness ==
    \E s \in Ids(slots), p \in Procs :
        /\ slots[s].status = "booked"
        /\ slots[s].student_id \in Students
        /\ reqs[p].op = "cancel" /\ reqs[p].sid = s /\ reqs[p].pc = "commit"

\* no call is in flight
BetweenOperations == \A p \in Procs : reqs[p].pc \in {"idle", "done"}

\* the visits linked to slot s
LinkedVisits(s) == {v \in Ids(visits) : visits[v].schedule_id = s}

\* C28: between operations, every slot whose status is completed has a linked
\* visit whose status is completed.
C28_CompletedTogether ==
    BetweenOperations =>
        \A s \in Ids(slots) :
            slots[s].status = "completed" =>
                \E v \in LinkedVisits(s) : visits[v].status = "completed"

\* C29: every visit that names a slot names a slot that exists; the cleaner
\* deletes no slot that a visit is linked to, whichever handler made the visit.
C29_VisitsKeepTheirSlot ==
    \A v \in Ids(visits) :
        visits[v].schedule_id # NoId => visits[v].schedule_id \in Ids(slots)

\* the cleaner has run while a slot dated in the past, still available, had a
\* visit made by a create_visit handler
C29_Witness ==
    /\ sched.cleanDay = today
    /\ \E v \in Ids(visits) :
          /\ visits[v].via \in {"student", "doctor"}
          /\ visits[v].schedule_id \in Ids(slots)
          /\ slots[visits[v].schedule_id].date < today
          /\ slots[visits[v].schedule_id].status = "available"

\* C30: no slot whose status is cancelled has a linked visit whose status is
\* pending.
C30_NoPendingOnCancelled ==
    \A s \in Ids(slots) :
        slots[s].status = "cancelled" =>
            \A v \in LinkedVisits(s) : visits[v].status # "pending"

====
